---- MODULE Spec2Model ----
(***************************************************************************)
(* Model of the DNS-update providers dondominio and aliyun:                *)
(*   src/internal/settings/providers/dondominio/dondominio.go              *)
(*   src/internal/settings/providers/aliyun/provider.go                    *)
(* A text (Go string that the code inspects character by character) is a   *)
(* sequence of one-character strings; a net.IP is a sequence of bytes of   *)
(* length 0 (nil), 4 or 16.                                                *)
(***************************************************************************)
EXTENDS Integers, Sequences, FiniteSets, TLC

(***************************************************************************)
(* net.IP: To4, Equal, String, ParseIP as the code calls them.             *)
(***************************************************************************)
\* The one element of a singleton set. A recursive call takes its arguments as
\* values bound over singleton sets, so that each is computed once.
Only(S) == CHOOSE x \in S : TRUE

IPv4len == 4
IPv6len == 16

NoIP == <<>>

v4InV6Prefix == <<0, 0, 0, 0, 0, 0, 0, 0, 0, 0, 255, 255>>

\* net.IPv4(a, b, c, d): the 16-byte form of an IPv4 address.
IPv4(a, b, c, d) == v4InV6Prefix \o <<a, b, c, d>>

\* ip.To4(): the 4-byte form, or nil when ip is not an IPv4 address.
To4(ip) ==
    IF Len(ip) = IPv4len THEN ip
    ELSE IF Len(ip) = IPv6len /\ SubSeq(ip, 1, 12) = v4InV6Prefix
         THEN SubSeq(ip, 13, 16)
         ELSE NoIP

\* ip.Equal(x): same address, an IPv4 address and its 16-byte form being equal.
IPEqual(ip, x) ==
    IF Len(ip) = Len(x) THEN ip = x
    ELSE IF Len(ip) = IPv4len /\ Len(x) = IPv6len
         THEN SubSeq(x, 1, 12) = v4InV6Prefix /\ ip = SubSeq(x, 13, 16)
    ELSE IF Len(ip) = IPv6len /\ Len(x) = IPv4len
         THEN SubSeq(ip, 1, 12) = v4InV6Prefix /\ SubSeq(ip, 13, 16) = x
    ELSE FALSE

DecDigits == <<"0", "1", "2", "3", "4", "5", "6", "7", "8", "9">>
HexLower == DecDigits \o <<"a", "b", "c", "d", "e", "f">>
HexUpper == DecDigits \o <<"A", "B", "C", "D", "E", "F">>

IndexIn(digits, c) ==
    IF \E k \in 1..Len(digits) : digits[k] = c
    THEN (CHOOSE k \in 1..Len(digits) : digits[k] = c) - 1
    ELSE -1

DecVal(c) == IndexIn(DecDigits, c)
HexVal(c) == IF IndexIn(HexLower, c) >= 0 THEN IndexIn(HexLower, c) ELSE IndexIn(HexUpper, c)

\* uitoa: decimal text of a byte.
RECURSIVE Uitoa(_)
Uitoa(n) ==
    IF n < 10 THEN <<DecDigits[n + 1]>>
    ELSE Only({Uitoa(q) : q \in {n \div 10}}) \o <<DecDigits[(n % 10) + 1]>>

\* appendHex: lower-case hex text of a 16-bit group, no leading zeros.
RECURSIVE AppendHex(_)
AppendHex(n) ==
    IF n < 16 THEN <<HexLower[n + 1]>>
    ELSE Only({AppendHex(q) : q \in {n \div 16}}) \o <<HexLower[(n % 16) + 1]>>

Group(p, i) == p[i + 1] * 256 + p[i + 2]

\* Length in bytes of the run of zero groups of p that starts at byte i.
RECURSIVE ZeroRunEnd(_, _)
ZeroRunEnd(p, j) ==
    IF j < IPv6len /\ p[j + 1] = 0 /\ p[j + 2] = 0
    THEN Only({ZeroRunEnd(p, k) : k \in {j + 2}})
    ELSE j

\* The loop of IP.String that finds the longest run of zero groups [e0, e1).
RECURSIVE LongestZeroRun(_, _, _, _)
LongestZeroRun(p, i, e0, e1) ==
    IF i >= IPv6len THEN <<e0, e1>>
    ELSE Only({IF j > i /\ j - i > e1 - e0
               THEN LongestZeroRun(p, j + 2, i, j)
               ELSE LongestZeroRun(p, i + 2, e0, e1) : j \in {ZeroRunEnd(p, i)}})

\* The loop of IP.String that prints the groups, "::" standing for [e0, e1).
RECURSIVE PrintGroups(_, _, _, _)
PrintGroups(p, i, e0, e1) ==
    IF i >= IPv6len THEN <<>>
    ELSE IF i = e0
         THEN <<":", ":">> \o
              (IF e1 >= IPv6len THEN <<>>
               ELSE AppendHex(Group(p, e1))
                    \o Only({PrintGroups(p, k, e0, e1) : k \in {e1 + 2}}))
         ELSE (IF i > 0 THEN <<":">> ELSE <<>>) \o AppendHex(Group(p, i))
              \o Only({PrintGroups(p, k, e0, e1) : k \in {i + 2}})

\* ip.String().
IPString(ip) ==
    IF Len(ip) = 0 THEN <<"<", "n", "i", "l", ">">>
    ELSE IF Len(To4(ip)) = IPv4len
         THEN LET p4 == To4(ip)
              IN  Uitoa(p4[1]) \o <<".">> \o Uitoa(p4[2]) \o <<".">>
                  \o Uitoa(p4[3]) \o <<".">> \o Uitoa(p4[4])
         ELSE Only({IF run[2] - run[1] <= 2
                    THEN PrintGroups(ip, 0, -1, -1)
                    ELSE PrintGroups(ip, 0, run[1], run[2]) :
                        run \in {LongestZeroRun(ip, 0, -1, -1)}})

Drop(s, n) == SubSeq(s, n + 1, Len(s))

Big == 16777215

\* dtoi / xtoi: the leading number of s in the given base: <<n, chars used, ok>>.
RECURSIVE Toi(_, _, _, _)
Toi(s, i, n, hex) ==
    Only({IF v < 0 THEN (IF i = 0 THEN <<0, 0, FALSE>> ELSE <<n, i, TRUE>>)
          ELSE Only({IF m >= Big THEN <<Big, i, FALSE>> ELSE Toi(s, i + 1, m, hex) :
                        m \in {n * (IF hex THEN 16 ELSE 10) + v}}) :
             v \in {IF i >= Len(s) THEN -1
                    ELSE IF hex THEN HexVal(s[i + 1]) ELSE DecVal(s[i + 1])}})

Dtoi(s) == Toi(s, 0, 0, FALSE)
Xtoi(s) == Toi(s, 0, 0, TRUE)

\* parseIPv4: the four octets of dotted-decimal s, or <<>> when s is malformed.
RECURSIVE ParseOctets(_, _, _)
ParseOctets(s, i, p) ==
    IF i = IPv4len THEN (IF Len(s) # 0 THEN <<>> ELSE p)
    ELSE IF Len(s) = 0 THEN <<>>
    ELSE IF i > 0 /\ s[1] # "." THEN <<>>
    ELSE Only({Only({IF ~r[3] \/ r[1] > 255 THEN <<>>
                     ELSE IF r[2] > 1 /\ t[1] = "0" THEN <<>>
                     ELSE Only({ParseOctets(rest, i + 1, q) :
                                   rest \in {Drop(t, r[2])}, q \in {Append(p, r[1])}}) :
                        r \in {Dtoi(t)}}) :
                  t \in {IF i > 0 THEN Drop(s, 1) ELSE s}})

ParseIPv4(s) ==
    Only({IF p = <<>> THEN NoIP ELSE IPv4(p[1], p[2], p[3], p[4]) :
             p \in {ParseOctets(s, 0, <<>>)}})

\* One turn of the main loop of parseIPv6: s is the rest of the text, ip the
\* bytes parsed so far (i = Len(ip)), ellipsis the byte position of "::" or -1,
\* and <<n, c, ok>> what xtoi(s) gave. The result is <<ok, ip, ellipsis>>.
RECURSIVE ParseGroups(_, _, _)
ParseGroup(s, ip, ellipsis, n, c, ok) ==
    LET i == Len(ip)
    IN  IF ~ok \/ n > 65535 THEN <<FALSE, ip, ellipsis>>
        ELSE IF c < Len(s) /\ s[c + 1] = "."
             THEN IF ellipsis < 0 /\ i # IPv6len - IPv4len THEN <<FALSE, ip, ellipsis>>
                  ELSE IF i + IPv4len > IPv6len THEN <<FALSE, ip, ellipsis>>
                  ELSE Only({IF ip4 = NoIP THEN <<FALSE, ip, ellipsis>>
                             ELSE <<TRUE, ip \o SubSeq(ip4, 13, 16), ellipsis>> :
                                ip4 \in {ParseIPv4(s)}})
        ELSE Only({IF Len(s1) = 0 THEN <<TRUE, ip2, ellipsis>>
                   ELSE IF s1[1] # ":" \/ Len(s1) = 1 THEN <<FALSE, ip2, ellipsis>>
                   ELSE IF s1[2] = ":"
                        THEN IF ellipsis >= 0 THEN <<FALSE, ip2, ellipsis>>
                             ELSE IF Len(s1) = 2 THEN <<TRUE, ip2, i + 2>>
                             ELSE Only({ParseGroups(s3, ip2, e) :
                                           s3 \in {Drop(s1, 2)}, e \in {i + 2}})
                        ELSE Only({ParseGroups(s2, ip2, ellipsis) : s2 \in {Drop(s1, 1)}}) :
                      ip2 \in {ip \o <<n \div 256, n % 256>>}, s1 \in {Drop(s, c)}})

\* The main loop of parseIPv6, from its condition i < IPv6len.
ParseGroups(s, ip, ellipsis) ==
    IF Len(ip) >= IPv6len THEN <<Len(s) = 0, ip, ellipsis>>
    ELSE Only({ParseGroup(s, ip, ellipsis, r[1], r[2], r[3]) : r \in {Xtoi(s)}})

Zeros(n) == [k \in 1..n |-> 0]

\* parseIPv6: the 16 bytes of s, the "::" expanded, or nil when s is malformed.
ParseIPv6(s) ==
    LET lead == Len(s) >= 2 /\ s[1] = ":" /\ s[2] = ":"
        rest == IF lead THEN Drop(s, 2) ELSE s
    IN  IF lead /\ Len(rest) = 0 THEN Zeros(IPv6len)
        ELSE Only({IF ~r[1] THEN NoIP
                   ELSE IF Len(r[2]) < IPv6len
                        THEN IF r[3] < 0 THEN NoIP
                             ELSE SubSeq(r[2], 1, r[3]) \o Zeros(IPv6len - Len(r[2]))
                                  \o SubSeq(r[2], r[3] + 1, Len(r[2]))
                        ELSE IF r[3] >= 0 THEN NoIP ELSE r[2] :
                      r \in {ParseGroups(rest, <<>>, IF lead THEN 0 ELSE -1)}})

\* The first of "." and ":" in s decides the syntax; neither: nil.
RECURSIVE ParseFrom(_, _)
ParseFrom(s, i) ==
    IF i > Len(s) THEN NoIP
    ELSE IF s[i] = "." THEN ParseIPv4(s)
    ELSE IF s[i] = ":" THEN ParseIPv6(s)
    ELSE Only({ParseFrom(s, k) : k \in {i + 1}})

\* net.ParseIP(s).
ParseIP(s) == ParseFrom(s, 1)


(***************************************************************************)
(* strings.EqualFold on the host labels (ASCII letters).                   *)
(***************************************************************************)
UpperLetters == <<"A", "B", "C", "D", "E", "F", "G", "H", "I", "J", "K", "L", "M",
                  "N", "O", "P", "Q", "R", "S", "T", "U", "V", "W", "X", "Y", "Z">>
LowerLetters == <<"a", "b", "c", "d", "e", "f", "g", "h", "i", "j", "k", "l", "m",
                  "n", "o", "p", "q", "r", "s", "t", "u", "v", "w", "x", "y", "z">>

Fold(c) == IF IndexIn(UpperLetters, c) >= 0 THEN LowerLetters[IndexIn(UpperLetters, c) + 1] ELSE c

EqualFold(s, t) == Len(s) = Len(t) /\ \A k \in 1..Len(s) : Fold(s[k]) = Fold(t[k])

(***************************************************************************)
(* Inputs.                                                                 *)
(***************************************************************************)
\* Update invocations on one provider.
MaxUpdates == 2
\* Records in one DescribeDomainRecords response.
MaxRecords == 2

At == <<"@">>
HostLower == <<"w", "w">>
HostUpper == <<"W", "W">>

\* The host argument of New: absent, the bare-domain sentinel, a label.
HostArgs == {<<>>, At, HostLower}
Domains == {"example.com"}
\* ipversion.IPVersion.
IPVersions == {"ipv4", "ipv6"}
\* The fields json.Unmarshal leaves in extraSettings.
Usernames == {"", "u"}
Passwords == {"", "p"}
Names == {"", "n"}
AccessKeyIDs == {"", "k"}
AccessSecrets == {"", "s"}
Regions == {"", "eu-central-1"}

IPv4a == <<203, 0, 113, 5>>
IPv4a16 == IPv4(203, 0, 113, 5)
IPv6a == <<32, 1, 13, 184, 0, 0, 0, 0, 0, 0, 0, 0, 0, 0, 0, 1>>
\* The ip argument of Update.
RequestedIPs == {IPv4a, IPv4a16, IPv6a}
\* The ctx argument of Update when it is called.
Contexts == {"nil", "active", "cancelled"}

TxtV4a == <<"2", "0", "3", ".", "0", ".", "1", "1", "3", ".", "5">>
TxtV4b == <<"2", "0", "3", ".", "0", ".", "1", "1", "3", ".", "9">>
TxtMapped == <<":", ":", "f", "f", "f", "f", ":", "2", "0", "3", ".", "0", ".", "1", "1", "3", ".", "5">>
TxtV6a == <<"2", "0", "0", "1", ":", "d", "b", "8", ":", ":", "1">>
TxtV6aLong == <<"2", "0", "0", "1", ":", "D", "B", "8", ":", "0", ":", "0", ":", "0", ":", "0", ":", "0", ":", "1">>
TxtV6b == <<"2", "0", "0", "1", ":", "d", "b", "8", ":", ":", "2">>
TxtBad == <<"2", "0", "3", ".", "0", ".", "1", "1", "3", ".", "2", "5", "6">>
\* What a glue record's ipv4 and ipv6 fields may hold.
IPv4Texts == {<<>>, TxtV4a, TxtV4b, TxtMapped, TxtBad}
IPv6Texts == {<<>>, TxtV6a, TxtV6aLong, TxtV6b, TxtV4a}

GlueRecord == [IPv4 : IPv4Texts, IPv6 : IPv6Texts]
OtherGlue == [IPv4 |-> TxtV4b, IPv6 |-> TxtV6b]
\* responseData.gluerecords: missing or empty, one record, or more.
GlueLists == {<<>>} \cup {<<g>> : g \in GlueRecord} \cup {<<g, OtherGlue>> : g \in GlueRecord}

StatusOK == 200
\* response.StatusCode: OK, No Content, Internal Server Error.
StatusCodes == {StatusOK, 204, 500}

\* What client.Do hands back: an error, or a response with a status code and a
\* body that decodes into responseData or does not.
DoErrors == {[kind |-> "http", err |-> TRUE, status |-> 0, decodes |-> FALSE, Success |-> FALSE,
              ErrorCode |-> 0, ErrorCodeMessage |-> "", GlueRecords |-> <<>>]}
UndecodableBodies ==
    {[kind |-> "http", err |-> FALSE, status |-> st, decodes |-> FALSE, Success |-> FALSE,
      ErrorCode |-> 0, ErrorCodeMessage |-> "", GlueRecords |-> <<>>] : st \in StatusCodes}
DecodedBodies ==
    {[kind |-> "http", err |-> FALSE, status |-> st, decodes |-> TRUE, Success |-> ok,
      ErrorCode |-> e[1], ErrorCodeMessage |-> e[2], GlueRecords |-> gl] :
        st \in StatusCodes, ok \in BOOLEAN, e \in {<<0, "">>, <<2004, "Insufficient balance">>},
        gl \in GlueLists}
HTTPResults == DoErrors \cup UndecodableBodies \cup DecodedBodies

DomainRecord ==
    {[RR |-> At, RecordId |-> "r1"], [RR |-> HostLower, RecordId |-> "r1"],
     [RR |-> HostLower, RecordId |-> ""], [RR |-> HostUpper, RecordId |-> "r2"],
     [RR |-> HostUpper, RecordId |-> "r1"]}
RECURSIVE SeqsUpTo(_, _)
SeqsUpTo(S, n) ==
    IF n = 0 THEN {<<>>}
    ELSE SeqsUpTo(S, n - 1) \cup {Append(q, x) : q \in {r \in SeqsUpTo(S, n - 1) : Len(r) = n - 1}, x \in S}
\* resp.DomainRecords.Record of a DescribeDomainRecords response.
RecordLists == SeqsUpTo(DomainRecord, MaxRecords)

(***************************************************************************)
(* Errors and results.                                                     *)
(***************************************************************************)
Err(kind, code, msg, text) == [kind |-> kind, code |-> code, msg |-> msg, text |-> text]
NoErr == Err("nil", 0, "", <<>>)
Ret(ip, err) == [ip |-> ip, err |-> err]
NoRet == [ip |-> NoIP, err |-> Err("pending", 0, "", <<>>)]

NilProvider ==
    [variant |-> "nil", domain |-> "", host |-> <<>>, ipVersion |-> "", username |-> "",
     password |-> "", name |-> "", accessKeyID |-> "", accessSecret |-> "", region |-> ""]
NoArgs ==
    [variant |-> "nil", dataOK |-> FALSE, domain |-> "", host |-> <<>>, ipVersion |-> "",
     Username |-> "", Password |-> "", Name |-> "", AccessKeyID |-> "", AccessSecret |-> "",
     Region |-> ""]

VARIABLES
    args,     \* the arguments of the call of New (the data as json.Unmarshal decodes it)
    p,        \* the provider New returned, or NilProvider
    newErr,   \* the error New returned ("pending" before New is called)
    pc,       \* where the caller and the current Update call are
    nUpdates, \* Update calls made on p
    ctx,      \* the ctx of the current Update call
    ip,       \* the ip of the current Update call
    loc,      \* the locals of the current Update call that outlive a transport call
    calls,    \* the transport calls the current Update call has issued, in order
    resp,     \* the transport's answers to the current Update call, in order
    ret       \* what the current Update call returned

vars == <<args, p, newErr, pc, nUpdates, ctx, ip, loc, calls, resp, ret>>

NoLoc == [isIPv4 |-> FALSE, recordType |-> "", recordID |-> ""]

Init ==
    /\ args = NoArgs
    /\ p = NilProvider
    /\ newErr = "pending"
    /\ pc = "start"
    /\ nUpdates = 0
    /\ ctx = "nil"
    /\ ip = NoIP
    /\ loc = NoLoc
    /\ calls = <<>>
    /\ resp = <<>>
    /\ ret = NoRet

(***************************************************************************)
(* dondominio: New, isValid.                                               *)
(***************************************************************************)
\* A validation that looks at the host before the credentials.
DonDominioIsValidHostFirst(q) ==
    IF q.host # At THEN "ErrHostOnlyAt"
    ELSE IF q.username = "" THEN "ErrEmptyUsername"
    ELSE IF q.password = "" THEN "ErrEmptyPassword"
    ELSE IF q.name = "" THEN "ErrEmptyName"
    ELSE "nil"

DonDominioIsValid(q) ==
    IF q.username = "" THEN "ErrEmptyUsername"
    ELSE IF q.password = "" THEN "ErrEmptyPassword"
    ELSE IF q.name = "" THEN "ErrEmptyName"
    ELSE IF q.host # At THEN "ErrHostOnlyAt"
    ELSE "nil"

\* The provider New builds before it validates it.
DonDominioBuild(a) ==
    [NilProvider EXCEPT !.variant = "dondominio", !.domain = a.domain,
                        !.host = IF Len(a.host) = 0 THEN At ELSE a.host,
                        !.ipVersion = a.ipVersion, !.username = a.Username,
                        !.password = a.Password, !.name = a.Name]

DonDominioNew ==
    /\ pc = "start"
    /\ \E ok \in BOOLEAN, u \in Usernames, pw \in Passwords, n \in Names,
          d \in Domains, h \in HostArgs, v \in IPVersions :
         LET a == [NoArgs EXCEPT !.variant = "dondominio", !.dataOK = ok, !.domain = d,
                                 !.host = h, !.ipVersion = v, !.Username = u,
                                 !.Password = pw, !.Name = n]
             q == DonDominioBuild(a)
         IN  /\ args' = a
             /\ IF ~ok
                THEN p' = NilProvider /\ newErr' = "json.Unmarshal" /\ pc' = "rejected"
                ELSE IF DonDominioIsValid(q) # "nil"
                THEN p' = NilProvider /\ newErr' = DonDominioIsValid(q) /\ pc' = "rejected"
                ELSE p' = q /\ newErr' = "nil" /\ pc' = "ready"
    /\ UNCHANGED <<nUpdates, ctx, ip, loc, calls, resp, ret>>

(***************************************************************************)
(* aliyun: New, isValid.                                                   *)
(***************************************************************************)
AliyunIsValid(q) ==
    IF q.accessKeyID = "" THEN "ErrEmptyAccessKeyID"
    ELSE IF q.accessSecret = "" THEN "ErrEmptyAccessKeySecret"
    ELSE "nil"

AliyunBuild(a) ==
    [NilProvider EXCEPT !.variant = "aliyun", !.domain = a.domain, !.host = a.host,
                        !.ipVersion = a.ipVersion, !.accessKeyID = a.AccessKeyID,
                        !.accessSecret = a.AccessSecret,
                        !.region = IF a.Region # "" THEN a.Region ELSE "cn-hangzhou"]

AliyunNew ==
    /\ pc = "start"
    /\ \E ok \in BOOLEAN, k \in AccessKeyIDs, s \in AccessSecrets, r \in Regions,
          d \in Domains, h \in HostArgs, v \in IPVersions :
         LET a == [NoArgs EXCEPT !.variant = "aliyun", !.dataOK = ok, !.domain = d,
                                 !.host = h, !.ipVersion = v, !.AccessKeyID = k,
                                 !.AccessSecret = s, !.Region = r]
             q == AliyunBuild(a)
         IN  /\ args' = a
             /\ IF ~ok
                THEN p' = NilProvider /\ newErr' = "json.Unmarshal" /\ pc' = "rejected"
                ELSE IF AliyunIsValid(q) # "nil"
                THEN p' = NilProvider /\ newErr' = AliyunIsValid(q) /\ pc' = "rejected"
                ELSE p' = q /\ newErr' = "nil" /\ pc' = "ready"
    /\ UNCHANGED <<nUpdates, ctx, ip, loc, calls, resp, ret>>


(***************************************************************************)
(* dondominio: Update.                                                     *)
(***************************************************************************)
\* Form values whose address parameter follows the configured preference.
DonDominioValuesByPreference(q, addr) ==
    ((IF q.ipVersion = "ipv4" THEN "ipv4" ELSE "ipv6") :> IPString(addr))
    @@ [apiuser |-> q.username, apipasswd |-> q.password, domain |-> q.domain, name |-> q.name]

\* The form values Update sends: url.Values as a function of the parameter names.
DonDominioValues(q, addr) ==
    ((IF To4(addr) # NoIP THEN "ipv4" ELSE "ipv6") :> IPString(addr))
    @@ [apiuser |-> q.username, apipasswd |-> q.password, domain |-> q.domain, name |-> q.name]

\* A verification that compares the reported text with the text of the ip asked for.
DonDominioVerifyText(addr, ipString) ==
    Only({IF newIP = NoIP THEN Ret(NoIP, Err("ErrIPReceivedMalformed", 0, "", ipString))
          ELSE IF ipString # IPString(addr)
               THEN Ret(NoIP, Err("ErrIPReceivedMismatch", 0, "", IPString(newIP)))
               ELSE Ret(newIP, NoErr) :
             newIP \in {ParseIP(ipString)}})

\* The end of Update: the reported text is parsed and compared with the ip asked for.
DonDominioVerify(addr, ipString) ==
    Only({IF newIP = NoIP THEN Ret(NoIP, Err("ErrIPReceivedMalformed", 0, "", ipString))
          ELSE IF ~IPEqual(addr, newIP)
               THEN Ret(NoIP, Err("ErrIPReceivedMismatch", 0, "", IPString(newIP)))
               ELSE Ret(newIP, NoErr) :
             newIP \in {ParseIP(ipString)}})

\* An interpretation that decodes the body before it looks at the status code.
DonDominioInterpretBodyFirst(addr, r) ==
    IF r.err THEN Ret(NoIP, Err("client.Do", 0, "", <<>>))
    ELSE IF ~r.decodes THEN Ret(NoIP, Err("ErrUnmarshalResponse", 0, "", <<>>))
    ELSE IF ~r.Success
         THEN Ret(NoIP, Err("ErrUnsuccessfulResponse", r.ErrorCode, r.ErrorCodeMessage, <<>>))
    ELSE IF r.status # StatusOK THEN Ret(NoIP, Err("ErrBadHTTPStatus", r.status, "", <<>>))
    ELSE IF Len(r.GlueRecords) = 0
         THEN Ret(NoIP, Err("panic: index out of range", 0, "", <<>>))
    ELSE DonDominioVerify(addr, IF To4(addr) # NoIP THEN r.GlueRecords[1].IPv4
                                                    ELSE r.GlueRecords[1].IPv6)

\* Update from the return of client.Do on: what it returns for the answer r, or
\* the run-time panic of indexing an empty slice.
DonDominioInterpret(addr, r) ==
    IF r.err THEN Ret(NoIP, Err("client.Do", 0, "", <<>>))
    ELSE IF r.status # StatusOK THEN Ret(NoIP, Err("ErrBadHTTPStatus", r.status, "", <<>>))
    ELSE IF ~r.decodes THEN Ret(NoIP, Err("ErrUnmarshalResponse", 0, "", <<>>))
    ELSE IF ~r.Success
         THEN Ret(NoIP, Err("ErrUnsuccessfulResponse", r.ErrorCode, r.ErrorCodeMessage, <<>>))
    ELSE IF Len(r.GlueRecords) = 0
         THEN Ret(NoIP, Err("panic: index out of range", 0, "", <<>>))
    ELSE DonDominioVerify(addr, IF To4(addr) # NoIP THEN r.GlueRecords[1].IPv4
                                                    ELSE r.GlueRecords[1].IPv6)

\* Update is called and runs to client.Do, or returns the error of
\* http.NewRequestWithContext (a nil ctx).
DonDominioUpdateSend ==
    /\ pc \in {"ready", "returned"}
    /\ p.variant = "dondominio"
    /\ nUpdates < MaxUpdates
    /\ nUpdates' = nUpdates + 1
    /\ \E c \in Contexts, a \in RequestedIPs :
         /\ ctx' = c
         /\ ip' = a
         /\ loc' = [NoLoc EXCEPT !.isIPv4 = (To4(a) # NoIP)]
         /\ resp' = <<>>
         /\ IF c = "nil"
            THEN /\ calls' = <<>>
                 /\ ret' = Ret(NoIP, Err("http.NewRequestWithContext", 0, "", <<>>))
                 /\ pc' = "returned"
            ELSE /\ calls' = <<[op |-> "POST", req |-> DonDominioValues(p, a)]>>
                 /\ ret' = NoRet
                 /\ pc' = "dd_do"
    /\ UNCHANGED <<args, p, newErr>>

\* client.Do returns (an error when ctx is done) and Update runs to its end.
DonDominioUpdateReceive ==
    /\ pc = "dd_do"
    /\ \E r \in HTTPResults :
         /\ ctx = "cancelled" => r.err
         /\ resp' = Append(resp, r)
         /\ LET out == DonDominioInterpret(ip, r)
            IN  IF out.err.kind = "panic: index out of range"
                THEN pc' = "panicked" /\ ret' = NoRet
                ELSE pc' = "returned" /\ ret' = out
    /\ UNCHANGED <<args, p, newErr, nUpdates, ctx, ip, loc, calls>>

(***************************************************************************)
(* aliyun: Update.                                                         *)
(***************************************************************************)
AliyunRecordType(addr) == IF To4(addr) = NoIP THEN "AAAA" ELSE "A"

\* A lookup that compares RR and host exactly.
RECURSIVE AliyunFindRecordIDExact(_, _)
AliyunFindRecordIDExact(records, host) ==
    IF Len(records) = 0 THEN ""
    ELSE IF Head(records).RR = host THEN Head(records).RecordId
    ELSE AliyunFindRecordIDExact(Tail(records), host)

\* The loop over resp.DomainRecords.Record: the RecordId of the first record
\* whose RR is the host up to case, "" when there is none.
RECURSIVE AliyunFindRecordID(_, _)
AliyunFindRecordID(records, host) ==
    IF Len(records) = 0 THEN ""
    ELSE IF EqualFold(Head(records).RR, host) THEN Head(records).RecordId
    ELSE AliyunFindRecordID(Tail(records), host)

AliyunListRequest(q) == [DomainName |-> q.domain, RRKeyWord |-> q.host]

AliyunUpdateRequest(q, addr, recordType, recordID) ==
    [Value |-> IPString(addr), Type |-> recordType, RR |-> q.host, RecordId |-> recordID]

\* Update is called and runs to client.DescribeDomainRecords, or returns the
\* error of alidns.NewClientWithAccessKey.
AliyunUpdateBegin ==
    /\ pc \in {"ready", "returned"}
    /\ p.variant = "aliyun"
    /\ nUpdates < MaxUpdates
    /\ nUpdates' = nUpdates + 1
    /\ \E c \in Contexts, a \in RequestedIPs, clientErr \in BOOLEAN :
         /\ ctx' = c
         /\ ip' = a
         /\ loc' = [NoLoc EXCEPT !.recordType = AliyunRecordType(a)]
         /\ resp' = <<>>
         /\ IF clientErr
            THEN /\ calls' = <<>>
                 /\ ret' = Ret(NoIP, Err("alidns.NewClientWithAccessKey", 0, "", <<>>))
                 /\ pc' = "returned"
            ELSE /\ calls' = <<[op |-> "DescribeDomainRecords", req |-> AliyunListRequest(p)]>>
                 /\ ret' = NoRet
                 /\ pc' = "al_list"
    /\ UNCHANGED <<args, p, newErr>>

\* client.DescribeDomainRecords returns and Update runs to
\* client.UpdateDomainRecord, or returns.
AliyunListReturn ==
    /\ pc = "al_list"
    /\ \E failed \in BOOLEAN, records \in RecordLists :
         /\ failed => records = <<>>
         /\ resp' = Append(resp, [kind |-> "DescribeDomainRecords", err |-> failed, Record |-> records])
         /\ LET recordID == AliyunFindRecordID(records, p.host)
            IN  IF failed
                THEN /\ ret' = Ret(NoIP, Err("client.DescribeDomainRecords", 0, "", <<>>))
                     /\ pc' = "returned"
                     /\ UNCHANGED <<loc, calls>>
                ELSE IF recordID = ""
                THEN /\ ret' = Ret(NoIP, Err("ErrRecordNotFound", 0, "", <<>>))
                     /\ pc' = "returned"
                     /\ UNCHANGED <<loc, calls>>
                ELSE /\ loc' = [loc EXCEPT !.recordID = recordID]
                     /\ calls' = Append(calls, [op |-> "UpdateDomainRecord",
                                               req |-> AliyunUpdateRequest(p, ip, loc.recordType, recordID)])
                     /\ pc' = "al_update"
                     /\ UNCHANGED ret
    /\ UNCHANGED <<args, p, newErr, nUpdates, ctx, ip>>

\* client.UpdateDomainRecord returns and Update returns ip with its error.
AliyunUpdateReturn ==
    /\ pc = "al_update"
    /\ \E failed \in BOOLEAN :
         /\ resp' = Append(resp, [kind |-> "UpdateDomainRecord", err |-> failed, Record |-> <<>>])
         /\ ret' = Ret(ip, IF failed THEN Err("client.UpdateDomainRecord", 0, "", <<>>) ELSE NoErr)
         /\ pc' = "returned"
    /\ UNCHANGED <<args, p, newErr, nUpdates, ctx, ip, loc, calls>>

\* The caller cancels the ctx of an Update call that waits for the transport.
Cancel ==
    /\ pc \in {"dd_do", "al_list", "al_update"}
    /\ ctx = "active"
    /\ ctx' = "cancelled"
    /\ UNCHANGED <<args, p, newErr, pc, nUpdates, ip, loc, calls, resp, ret>>

Next ==
    \/ DonDominioNew
    \/ AliyunNew
    \/ DonDominioUpdateSend
    \/ DonDominioUpdateReceive
    \/ AliyunUpdateBegin
    \/ AliyunListReturn
    \/ AliyunUpdateReturn
    \/ Cancel

Spec == Init /\ [][Next]_vars


(***************************************************************************)
(* The claims.                                                             *)
(***************************************************************************)
Returned == pc = "returned"

\* The answer of client.Do to the current dondominio Update call, once it is in.
DoAnswered == p.variant = "dondominio" /\ Len(resp) = 1
\* The provider answered: a status code and a body.
DoResponded == DoAnswered /\ ~resp[1].err
\* The text the answer reports in the field of the family of the ip asked for.
ReportedText ==
    IF To4(ip) # NoIP THEN resp[1].GlueRecords[1].IPv4 ELSE resp[1].GlueRecords[1].IPv6
\* The answer passes the status, decoding and success stages and reports a value.
DoReported ==
    /\ DoResponded
    /\ resp[1].status = StatusOK
    /\ resp[1].decodes
    /\ resp[1].Success
    /\ Len(resp[1].GlueRecords) > 0

\* C1: whenever Update returns a nil error, the provider's answer reports a
\* value that parses to the ip asked for, in both providers; and a reported
\* value that parses to another ip makes Update return ErrIPReceivedMismatch and
\* no ip. (aliyun's Update reads no reported value at all.)
C1_SuccessIsVerified ==
    /\ (Returned /\ ret.err = NoErr)
         => DoReported /\ ParseIP(ReportedText) # NoIP /\ IPEqual(ip, ParseIP(ReportedText))
    /\ (Returned /\ DoReported /\ ParseIP(ReportedText) # NoIP
          /\ ~IPEqual(ip, ParseIP(ReportedText)))
         => ret.err.kind = "ErrIPReceivedMismatch" /\ ret.ip = NoIP

\* C2: every return of Update is an ip with a nil error, or no ip with an error.
C2_IPXorError ==
    Returned => \/ ret.ip # NoIP /\ ret.err = NoErr
                \/ ret.ip = NoIP /\ ret.err # NoErr

\* The validation rules of the claim, read off the arguments of New.
EffectiveHost(a) == IF a.host = <<>> THEN At ELSE a.host
FirstViolated(a) ==
    IF a.variant = "dondominio"
    THEN IF a.Username = "" THEN "ErrEmptyUsername"
         ELSE IF a.Password = "" THEN "ErrEmptyPassword"
         ELSE IF a.Name = "" THEN "ErrEmptyName"
         ELSE IF EffectiveHost(a) # At THEN "ErrHostOnlyAt"
         ELSE "nil"
    ELSE IF a.AccessKeyID = "" THEN "ErrEmptyAccessKeyID"
         ELSE IF a.AccessSecret = "" THEN "ErrEmptyAccessKeySecret"
         ELSE "nil"
RequiredFieldsSet ==
    IF p.variant = "dondominio"
    THEN p.username # "" /\ p.password # "" /\ p.name # "" /\ p.host = At
    ELSE p.accessKeyID # "" /\ p.accessSecret # ""
NewFollowsRules ==
    /\ newErr = FirstViolated(args)
    /\ (FirstViolated(args) = "nil") <=> (p # NilProvider)
    /\ p # NilProvider => RequiredFieldsSet
NewCalled == args.variant # "nil"

\* C3 as stated: for every configuration New returns a provider exactly when all
\* rules hold, and otherwise the error of the first violated rule; no transport
\* call is made by New.
C3_NewFollowsRulesAlways ==
    NewCalled => NewFollowsRules /\ (nUpdates = 0 => calls = <<>>)

\* C3 amended: when the payload decodes, New returns a provider exactly when all
\* rules hold, and otherwise the error of the first violated rule in the fixed
\* order; when the payload does not decode, New returns no provider and the
\* decoding error, whatever the fields hold. New makes no transport call, and a
\* provider it returns has every required field set.
C3_NewFollowsRulesWhenDecoded ==
    NewCalled =>
        /\ args.dataOK => NewFollowsRules
        /\ ~args.dataOK => p = NilProvider /\ newErr = "json.Unmarshal"
        /\ nUpdates = 0 => calls = <<>>
        /\ p # NilProvider => RequiredFieldsSet

\* Several rules are violated at once and the first decides; the host rule is
\* reached only with all three fields set.
C3_Witness ==
    /\ pc = "rejected"
    /\ args.variant = "dondominio" /\ args.dataOK
    /\ args.Username # "" /\ args.Password = "" /\ args.Name = "" /\ args.host = HostLower
    /\ newErr = "ErrEmptyPassword"

\* The records of the lookup answer whose RR is the host up to case.
Matching == {j \in 1..Len(resp[1].Record) : EqualFold(resp[1].Record[j].RR, p.host)}
FirstMatching == CHOOSE j \in Matching : \A k \in Matching : j <= k
LookupAnswered ==
    p.variant = "aliyun" /\ Len(resp) >= 1 /\ ~resp[1].err

\* C4: in aliyun's Update an update call is issued only as the second call,
\* after the lookup call of the same invocation has answered with a record whose
\* RR is the host up to case, and it names the RecordId of the first such
\* record; a lookup answer with no such record makes Update return
\* ErrRecordNotFound with no update call issued.
C4_UpdateOnlyAfterMatch ==
    /\ \A k \in 1..Len(calls) :
         calls[k].op = "UpdateDomainRecord" =>
            /\ k = 2
            /\ calls[1].op = "DescribeDomainRecords"
            /\ LookupAnswered
            /\ Matching # {}
            /\ calls[k].req.RecordId = resp[1].Record[FirstMatching].RecordId
            /\ calls[k].req.RR = p.host
    /\ (LookupAnswered /\ Matching = {}) =>
            /\ Returned
            /\ ret = Ret(NoIP, Err("ErrRecordNotFound", 0, "", <<>>))
            /\ Len(calls) = 1

\* An update call goes out for a record whose RR differs from the host in case,
\* a later record carrying the host exactly.
C4_Witness ==
    /\ pc = "al_update"
    /\ LookupAnswered
    /\ Len(resp[1].Record) = 2
    /\ p.host = HostLower
    /\ resp[1].Record[1].RR = HostUpper
    /\ resp[1].Record[2].RR = HostLower
    /\ resp[1].Record[1].RecordId # resp[1].Record[2].RecordId
    /\ calls[2].req.RecordId = resp[1].Record[1].RecordId

AddressParams(req) == DOMAIN req \cap {"ipv4", "ipv6"}

\* C5: the family of every outgoing request follows the ip alone: dondominio
\* sends exactly one of ipv4 / ipv6, ipv4 exactly for an ip with a 4-byte form,
\* aliyun sends type A for such an ip and AAAA otherwise, and the value sent
\* parses back to the ip asked for.
C5_FamilyFollowsIP ==
    \A k \in 1..Len(calls) :
        /\ calls[k].op = "POST" =>
             /\ AddressParams(calls[k].req) = {IF To4(ip) # NoIP THEN "ipv4" ELSE "ipv6"}
             /\ \A name \in AddressParams(calls[k].req) :
                    IPEqual(ParseIP(calls[k].req[name]), ip)
        /\ calls[k].op = "UpdateDomainRecord" =>
             /\ calls[k].req.Type = (IF To4(ip) # NoIP THEN "A" ELSE "AAAA")
             /\ IPEqual(ParseIP(calls[k].req.Value), ip)

\* A provider configured for ipv6 is asked for an IPv4 address given in its
\* 16-byte form, and sends it as ipv4.
C5_Witness ==
    /\ pc = "dd_do"
    /\ p.ipVersion = "ipv6"
    /\ ip = IPv4a16
    /\ Len(calls) = 1
    /\ "ipv4" \in DOMAIN calls[1].req
    /\ calls[1].req["ipv4"] = TxtV4a

\* C6: when client.Do answers 200 with a body that decodes, with success true
\* and a reported value (in the field of the family asked for) that parses to
\* the ip asked for, dondominio's Update returns that ip and a nil error.
C6_RoundTrip ==
    (DoReported /\ ParseIP(ReportedText) # NoIP /\ IPEqual(ip, ParseIP(ReportedText)))
        => /\ Returned
           /\ ret.err = NoErr
           /\ ret.ip = ParseIP(ReportedText)
           /\ IPEqual(ret.ip, ip)

\* The reported text is not the text of the ip asked for, and yet confirms it.
C6_Witness ==
    /\ Returned
    /\ DoReported
    /\ ip = IPv6a
    /\ ReportedText = TxtV6aLong
    /\ ReportedText # IPString(ip)
    /\ ret = Ret(IPv6a, NoErr)

\* C7: a provider constructed with an absent host has the host "@".
C7_AbsentHostDefaults ==
    (p # NilProvider /\ args.host = <<>>) => p.host = At

\* C8: an Update call whose ctx is cancelled before it returns, returns an
\* error and no ip.
C8_CancelledReturnsError ==
    (Returned /\ ctx = "cancelled") => ret.err # NoErr /\ ret.ip = NoIP

\* C9: no answer of the transport makes dondominio's Update abort the process.
C9_NeverPanics == pc # "panicked"

\* C10: dondominio's Update reads an answer in a fixed order, and the first
\* stage that fails decides the error, no ip being returned: the status code,
\* then the decoding of the body, then the success flag, then the reported value
\* (malformed before mismatch).
C10_Precedence ==
    DoResponded =>
        LET r == resp[1]
        IN  /\ r.status # StatusOK
                => Returned /\ ret = Ret(NoIP, Err("ErrBadHTTPStatus", r.status, "", <<>>))
            /\ (r.status = StatusOK /\ ~r.decodes)
                => Returned /\ ret = Ret(NoIP, Err("ErrUnmarshalResponse", 0, "", <<>>))
            /\ (r.status = StatusOK /\ r.decodes /\ ~r.Success)
                => Returned /\ ret = Ret(NoIP, Err("ErrUnsuccessfulResponse", r.ErrorCode,
                                                   r.ErrorCodeMessage, <<>>))
            /\ (DoReported /\ ParseIP(ReportedText) = NoIP)
                => Returned /\ ret = Ret(NoIP, Err("ErrIPReceivedMalformed", 0, "", ReportedText))
            /\ (DoReported /\ ParseIP(ReportedText) # NoIP /\ ~IPEqual(ip, ParseIP(ReportedText)))
                => Returned /\ ret.ip = NoIP /\ ret.err.kind = "ErrIPReceivedMismatch"
                            /\ IPEqual(ParseIP(ret.err.text), ParseIP(ReportedText))

\* A status 500 decides, over a body that reports success and the ip asked for.
C10_Witness ==
    /\ Returned
    /\ DoResponded
    /\ resp[1].status = 500
    /\ resp[1].decodes /\ resp[1].Success
    /\ Len(resp[1].GlueRecords) = 1
    /\ ip = IPv4a
    /\ resp[1].GlueRecords[1].IPv4 = TxtV4a
    /\ ret.err.kind = "ErrBadHTTPStatus" /\ ret.err.code = 500

====
